---- MODULE Spec2Model ----
(***************************************************************************)
(* A model of scripts/generate-markdown-report.py: one invocation of the   *)
(* report generator (the import guard, then main's stages load, convert,   *)
(* create directories, historical scan, base charts, trend charts, report) *)
(* over a results file and a tree of earlier reports.                      *)
(*                                                                         *)
(* Numbers.  Every Python float of the program (latencies in ms, rates in  *)
(* requests per second, percentages, fractions) is an integer count of     *)
(* thousandths: 8 ms is 8000, 500 RPS is 500000, the fraction 0.001 is 1.  *)
(* A product such as x * 1.2 is (x * 12) \div 10 and is exact for the      *)
(* inputs drawn here (all are multiples of 10 thousandths).  Text the      *)
(* program formats and parses back is a sequence of one-character strings. *)
(* Python dicts are functions whose DOMAIN is the set of keys present, so  *)
(* a lookup d[k] raises KeyError exactly when k \notin DOMAIN d.           *)
(*                                                                         *)
(* Names.  A run identifier / timestamp string YYYYMMDD_HHMMSS is a        *)
(* natural number (a "stamp"); the order of stamps is the lexicographic    *)
(* order of the fixed-width strings.  Stamp 0 stands for a 14-digit group  *)
(* that is not a calendar date (00000000_000000), which strptime rejects.  *)
(***************************************************************************)
EXTENDS Integers, Sequences, FiniteSets, TLC

VARIABLES
    pc,               \* position of the process: start, load, convert, mkdirs, scan, charts, trend, report, exit
    deps,             \* whether matplotlib, seaborn, pandas and numpy can be imported
    inputFile,        \* the results file named by argv[1]: missing, malformed, or a JSON value
    runId,            \* main's timestamp: argv[2] or now, a stamp
    now,              \* the clock read by convert_k6_data, a stamp
    fs,               \* the files performance_results/*/performance_report_*.md
    dirs,             \* the directories performance_results/<name> that exist
    k6_data,          \* main's k6_data
    data,             \* main's data (the StatsRecord of this run)
    historical_data,  \* main's historical_data (the HistoricalSeries)
    loaded,           \* history: the files whose entries were appended, in order
    warned,           \* history: the files for which a warning was printed
    charts,           \* main's charts (names of the base chart images)
    images,           \* image files written by this run under images/
    written,          \* report files written by this run
    stages,           \* history: the stages this run has completed, in order
    error,            \* the exception caught at the top level of main ("" when none)
    exitCode          \* the process's exit code (-1 while running)

vars == <<pc, deps, inputFile, runId, now, fs, dirs, k6_data, data, historical_data,
          loaded, warned, charts, images, written, stages, error, exitCode>>

\* Bounds of the model.
MaxFiles == 2      \* report files in the tree before the run
MaxMissing == 2    \* keys absent from request_latency in a drawn input

None == [none |-> TRUE]

Restrict(f, S) == [x \in S |-> f[x]]
Override(f, k, v) == [x \in DOMAIN f |-> IF x = k THEN v ELSE f[x]]

----------------------------------------------------------------------------
(* Text: what the format specs of the report template and the regular      *)
(* expressions, int() and float() of the scanner do.                       *)

DigitChars == <<"0", "1", "2", "3", "4", "5", "6", "7", "8", "9">>
DigitSet == {DigitChars[i] : i \in 1..10}
DigitValue(c) == (CHOOSE i \in 1..10 : DigitChars[i] = c) - 1

RECURSIVE Digits(_)
Digits(n) ==
    IF n < 10 THEN <<DigitChars[n + 1]>>
    ELSE Digits(n \div 10) \o <<DigitChars[(n % 10) + 1]>>

PadDigits(n, w) ==
    LET d == Digits(n)
    IN  IF Len(d) >= w THEN d ELSE [i \in 1..(w - Len(d)) |-> "0"] \o d

\* A mutant of FormatGrouped: the plain format, no thousands separator.
FormatGrouped_NoSeparator(n) == Digits(n)

\* format(n, ","): the integer n with a comma between groups of three digits.
RECURSIVE FormatGrouped(_)
FormatGrouped(n) ==
    IF n < 1000 THEN Digits(n)
    ELSE FormatGrouped(n \div 1000) \o <<",">> \o PadDigits(n % 1000, 3)

Pow10(k) == CASE k = 0 -> 1 [] k = 1 -> 10 [] k = 2 -> 100 [] k = 3 -> 1000

\* Rounding to a multiple of q, ties to even (float formatting of a value
\* that is exactly representable).
RoundHalfEven(v, q) ==
    LET lo == v \div q
        r == v % q
    IN  IF 2 * r > q \/ (2 * r = q /\ lo % 2 = 1) THEN lo + 1 ELSE lo

\* format(v, ".<d>f") for v in thousandths, d in 1..2.
FormatFixed(v, d) ==
    LET u == RoundHalfEven(v, Pow10(3 - d))
    IN  Digits(u \div Pow10(d)) \o <<".">> \o PadDigits(u % Pow10(d), d)

\* The longest prefix of s made of characters of cls: a greedy [cls]+ group.
RECURSIVE TakeWhile(_, _)
TakeWhile(s, cls) ==
    IF s = <<>> \/ Head(s) \notin cls THEN <<>>
    ELSE <<Head(s)>> \o TakeWhile(Tail(s), cls)

\* str.replace(c, '').
RECURSIVE Remove(_, _)
Remove(s, c) ==
    IF s = <<>> THEN <<>>
    ELSE IF Head(s) = c THEN Remove(Tail(s), c)
    ELSE <<Head(s)>> \o Remove(Tail(s), c)

RECURSIVE DigitsValue(_)
DigitsValue(s) ==
    IF s = <<>> THEN 0
    ELSE 10 * DigitsValue(SubSeq(s, 1, Len(s) - 1)) + DigitValue(s[Len(s)])

ValueError == -1

\* int(s) for s over digits: ValueError on the empty string.
ParseInt(s) == IF s = <<>> THEN ValueError ELSE DigitsValue(s)

\* A mutant of ParseFloat: the digits after the point are dropped.
ParseFloat_Truncating(s) ==
    LET ip == TakeWhile(s, DigitSet)
    IN  IF ip = <<>> THEN ValueError ELSE DigitsValue(ip) * 1000

\* float(s) for s over digits and ".", in thousandths: ValueError when s has
\* no digit or more than one point.
ParseFloat(s) ==
    LET ip == TakeWhile(s, DigitSet)
        rest == SubSeq(s, Len(ip) + 1, Len(s))
        fp == IF rest = <<>> THEN <<>> ELSE Tail(rest)
        f3 == SubSeq(fp \o <<"0", "0", "0">>, 1, 3)
    IN  IF (ip = <<>> /\ fp = <<>>) \/ TakeWhile(fp, DigitSet) # fp THEN ValueError
        ELSE DigitsValue(ip) * 1000 + DigitsValue(f3)

----------------------------------------------------------------------------
(* convert_k6_data                                                         *)

\* A mutant of calculate_latency_grade: the boundaries are not strict.
calculate_latency_grade_Inclusive(p99_latency) ==
    IF p99_latency <= 10000 THEN "A+ (Outstanding)"
    ELSE IF p99_latency <= 50000 THEN "A (Very Good)"
    ELSE IF p99_latency <= 100000 THEN "B (Good)"
    ELSE IF p99_latency <= 500000 THEN "C (Acceptable)"
    ELSE "D (Poor)"

calculate_latency_grade(p99_latency) ==
    IF p99_latency < 10000 THEN "A+ (Outstanding)"
    ELSE IF p99_latency < 50000 THEN "A (Very Good)"
    ELSE IF p99_latency < 100000 THEN "B (Good)"
    ELSE IF p99_latency < 500000 THEN "C (Acceptable)"
    ELSE "D (Poor)"

\* A mutant of calculate_throughput_grade: the boundaries are not strict.
calculate_throughput_grade_Inclusive(average_rps) ==
    IF average_rps >= 1000000 THEN "A (Very Good)"
    ELSE IF average_rps >= 500000 THEN "B (Good)"
    ELSE IF average_rps >= 100000 THEN "C (Basic Performance)"
    ELSE "D (Limited)"

calculate_throughput_grade(average_rps) ==
    IF average_rps > 1000000 THEN "A (Very Good)"
    ELSE IF average_rps > 500000 THEN "B (Good)"
    ELSE IF average_rps > 100000 THEN "C (Basic Performance)"
    ELSE "D (Limited)"

\* A mutant of overall_grade: either condition is enough.
overall_grade_Either(p99_latency, average_rps) ==
    IF p99_latency < 10000 \/ average_rps > 500000 THEN "A (Excellent)" ELSE "B (Good)"

overall_grade(p99_latency, average_rps) ==
    IF p99_latency < 10000 /\ average_rps > 500000 THEN "A (Excellent)" ELSE "B (Good)"

\* The keys of request_latency read with [] and those read with .get(key, 0).
\* A mutant of RequiredLatencyKeys: p(99.99) is read with [] as well.
RequiredLatencyKeys_Strict ==
    {"med", "p(90)", "p(95)", "p(99)", "p(99.9)", "p(99.99)", "avg", "min", "max"}

RequiredLatencyKeys == {"med", "p(90)", "p(95)", "p(99)", "p(99.9)", "avg", "min", "max"}
OptionalLatencyKeys == {"p(99.99)", "p(99.999)"}

\* dict.get(key, default).
Get(d, key, default) == IF key \in DOMAIN d THEN d[key] ELSE default

\* The lookups convert_k6_data makes with []: each raises KeyError when absent.
LookupsSucceed(k6) ==
    /\ "metrics" \in DOMAIN k6
    /\ {"request_latency", "http_reqs", "http_req_failed"} \subseteq DOMAIN k6["metrics"]
    /\ {"count", "rate"} \subseteq DOMAIN k6["metrics"]["http_reqs"]
    /\ "value" \in DOMAIN k6["metrics"]["http_req_failed"]
    /\ RequiredLatencyKeys \subseteq DOMAIN k6["metrics"]["request_latency"]

\* The dict convert_k6_data returns, given that its lookups succeed.
StatsRecord(k6, clock) ==
    LET metrics == k6["metrics"]
        request_latency == metrics["request_latency"]
        total_requests == metrics["http_reqs"]["count"]
        average_rps == metrics["http_reqs"]["rate"]
        error_rate == metrics["http_req_failed"]["value"]
        success_rate == (1000 - error_rate) * 100
    IN  [ timestamp |-> clock,
          test_duration_seconds |-> 600 * 1000,
          total_requests |-> total_requests,
          average_throughput_rps |-> average_rps,
          latency_percentiles |->
              [ p50 |-> request_latency["med"],
                p90 |-> request_latency["p(90)"],
                p95 |-> request_latency["p(95)"],
                p99 |-> request_latency["p(99)"],
                p99_9 |-> request_latency["p(99.9)"],
                p99_99 |-> Get(request_latency, "p(99.99)", 0),
                p99_999 |-> Get(request_latency, "p(99.999)", 0),
                avg |-> request_latency["avg"],
                min |-> request_latency["min"],
                max |-> request_latency["max"],
                med |-> request_latency["med"] ],
          throughput_analysis |->
              [ peak_rps |-> (average_rps * 12) \div 10,
                sustained_rps |-> (average_rps * 9) \div 10,
                error_rate_percent |-> error_rate * 100,
                success_rate_percent |-> success_rate,
                average_throughput_rps |-> average_rps ],
          performance_analysis |->
              [ latency_grade |-> calculate_latency_grade(request_latency["p(99)"]),
                throughput_grade |-> calculate_throughput_grade(average_rps),
                overall_grade |-> overall_grade(request_latency["p(99)"], average_rps) ] ]

\* A mutant of convert_k6_data: the duration is measured on the clock.
convert_k6_data_ClockedDuration(k6, clock) ==
    IF LookupsSucceed(k6)
    THEN [raised |-> "",
          value |-> [StatsRecord(k6, clock) EXCEPT !.test_duration_seconds = clock * 1000]]
    ELSE [raised |-> "KeyError", value |-> None]

\* A mutant of convert_k6_data: the peak is derived from the sustained rate.
convert_k6_data_PeakOfSustained(k6, clock) ==
    IF LookupsSucceed(k6)
    THEN LET d == StatsRecord(k6, clock)
         IN  [raised |-> "",
              value |-> [d EXCEPT !.throughput_analysis.peak_rps =
                                      (d.throughput_analysis.sustained_rps * 12) \div 10]]
    ELSE [raised |-> "KeyError", value |-> None]

\* convert_k6_data(k6_data): the record, or the KeyError it raises.
convert_k6_data(k6, clock) ==
    IF LookupsSucceed(k6) THEN [raised |-> "", value |-> StatsRecord(k6, clock)]
    ELSE [raised |-> "KeyError", value |-> None]

----------------------------------------------------------------------------
(* generate_markdown_report: the rows of the report whose cells carry a    *)
(* field of the record.  A report's content is a function from row label   *)
(* to cell text; a row the text lacks is absent from the DOMAIN.           *)

Ms == <<"m", "s">>
Percent == <<"%">>
Rps == <<" ", "R", "P", "S">>
Seconds == <<" ", "s", "e", "c", "o", "n", "d", "s">>

\* The status cell of a percentile row, a mutant first: a value equal to the
\* threshold is still "Outstanding".
Badge_Inclusive(value, threshold) == IF value <= threshold THEN "Outstanding" ELSE "Good"

Badge(value, threshold) == IF value < threshold THEN "Outstanding" ELSE "Good"

\* The markdown text written for the record `d`.
RenderReport(d) ==
    LET lp == d.latency_percentiles
        ta == d.throughput_analysis
        pa == d.performance_analysis
    IN  [ TestDate |-> d.timestamp,
          Duration |-> Digits(d.test_duration_seconds \div 1000) \o Seconds,
          TotalRequests |-> FormatGrouped(d.total_requests),
          AverageRPS |-> FormatFixed(d.average_throughput_rps, 1),
          ErrorRate |-> FormatFixed(ta.error_rate_percent, 2) \o Percent,
          SuccessRate |-> FormatFixed(ta.success_rate_percent, 2) \o Percent,
          P50 |-> FormatFixed(lp.p50, 2) \o Ms,
          P90 |-> FormatFixed(lp.p90, 2) \o Ms,
          P95 |-> FormatFixed(lp.p95, 2) \o Ms,
          P99 |-> FormatFixed(lp.p99, 2) \o Ms,
          P99_9 |-> FormatFixed(lp.p99_9, 2) \o Ms,
          P99_99 |-> FormatFixed(lp.p99_99, 2) \o Ms,
          P99_999 |-> FormatFixed(lp.p99_999, 2) \o Ms,
          P50Status |-> Badge(lp.p50, 10000),
          P90Status |-> Badge(lp.p90, 10000),
          P95Status |-> Badge(lp.p95, 10000),
          P99Status |-> Badge(lp.p99, 10000),
          P99_9Status |-> Badge(lp.p99_9, 10000),
          P99_99Status |-> Badge(lp.p99_99, 50000),
          P99_999Status |-> Badge(lp.p99_999, 100000),
          AverageThroughput |-> FormatFixed(ta.average_throughput_rps, 1) \o Rps,
          PeakRPS |-> FormatFixed(ta.peak_rps, 1) \o Rps,
          SustainedRPS |-> FormatFixed(ta.sustained_rps, 1) \o Rps,
          Latency |-> pa.latency_grade,
          Throughput |-> pa.throughput_grade,
          Overall |-> pa.overall_grade ]

\* File names under performance_results/*/ that the glob performance_report_*.md
\* matches: performance_report_<stamp>.md, or performance_report_<word>.md.
StampName(s) == [kind |-> "stamp", stamp |-> s]
WordName == [kind |-> "word", stamp |-> 0]

----------------------------------------------------------------------------
(* The historical scanner                                                  *)

\* re.search(r'performance_report_(\d{8}_\d{6})\.md', filename).
timestamp_match(filename) == filename.kind = "stamp"

\* datetime.strptime(timestamp_str, '%Y%m%d_%H%M%S') succeeds.
ValidDate(stamp) == stamp >= 1

SkipSpaces(s) == SubSeq(s, Len(TakeWhile(s, {" "})) + 1, Len(s))
StartsWith(s, prefix) == Len(s) >= Len(prefix) /\ SubSeq(s, 1, Len(prefix)) = prefix

\* The group of re.search(r'\*\*<row>\*\*\s*\|\s*([<cls>]+)<suffix>', content):
\* the empty sequence when there is no match.
Group(content, row, cls, suffix) ==
    IF row \notin DOMAIN content THEN <<>>
    ELSE LET g == TakeWhile(content[row], cls)
             after == SubSeq(content[row], Len(g) + 1, Len(content[row]))
         IN  IF StartsWith(after, suffix) THEN g ELSE <<>>

\* The group of re.search(r'\*\*Duration:\*\*\s*([\d.]+)\s*seconds', content).
DurationGroup(content) ==
    IF "Duration" \notin DOMAIN content THEN <<>>
    ELSE LET g == TakeWhile(content["Duration"], DigitSet \cup {"."})
             after == SubSeq(content["Duration"], Len(g) + 1, Len(content["Duration"]))
         IN  IF StartsWith(SkipSpaces(after), SkipSpaces(Seconds)) THEN g ELSE <<>>

NumberChars == DigitSet \cup {"."}
GroupedChars == DigitSet \cup {",", "."}

\* The percentile rows the scanner reads, by key of latency_percentiles.
PercentileRow == [p50 |-> "P50", p90 |-> "P90", p95 |-> "P95", p99 |-> "P99", p99_9 |-> "P99_9"]
RateRow == [error_rate_percent |-> "ErrorRate", success_rate_percent |-> "SuccessRate"]
RpsRow == [peak_rps |-> "PeakRPS", sustained_rps |-> "SustainedRPS"]
GradeRow == [latency_grade |-> "Latency", throughput_grade |-> "Throughput", overall_grade |-> "Overall"]

\* The dict extract_metrics_from_markdown builds from the text, given that the
\* file name matched: a number that does not convert is ValueError.
ExtractedEntry(content, stamp) ==
    LET total == Group(content, "TotalRequests", DigitSet \cup {","}, <<>>)
        avg == Group(content, "AverageRPS", GroupedChars, <<>>)
        dur == DurationGroup(content)
        pk == {k \in DOMAIN PercentileRow : Group(content, PercentileRow[k], NumberChars, Ms) # <<>>}
        rk == {k \in DOMAIN RateRow : Group(content, RateRow[k], NumberChars, Percent) # <<>>}
        tk == {k \in DOMAIN RpsRow : Group(content, RpsRow[k], GroupedChars, <<>>) # <<>>}
        gk == {k \in DOMAIN GradeRow : GradeRow[k] \in DOMAIN content}
    IN  [ timestamp |-> stamp,
          total_requests |-> IF total # <<>> THEN ParseInt(Remove(total, ",")) ELSE 0,
          average_throughput_rps |-> IF avg # <<>> THEN ParseFloat(Remove(avg, ",")) ELSE 0,
          test_duration_seconds |-> IF dur # <<>> THEN ParseFloat(dur) ELSE 600 * 1000,
          latency_percentiles |->
              [k \in pk |-> ParseFloat(Group(content, PercentileRow[k], NumberChars, Ms))],
          throughput_analysis |->
              [k \in rk \cup tk |->
                  IF k \in rk THEN ParseFloat(Group(content, RateRow[k], NumberChars, Percent))
                  ELSE ParseFloat(Remove(Group(content, RpsRow[k], GroupedChars, <<>>), ","))],
          performance_analysis |-> [k \in gk |-> content[GradeRow[k]]] ]

\* Whether int() or float() raised while the entry was built.
ConversionRaised(e) ==
    \/ ValueError \in {e.total_requests, e.average_throughput_rps, e.test_duration_seconds}
    \/ \E k \in DOMAIN e.latency_percentiles : e.latency_percentiles[k] = ValueError
    \/ \E k \in DOMAIN e.throughput_analysis : e.throughput_analysis[k] = ValueError

\* extract_metrics_from_markdown(content, filename): the entry or None, and
\* whether the except branch printed its warning.
extract_metrics_from_markdown(content, filename) ==
    IF ~timestamp_match(filename) THEN [entry |-> None, warning |-> FALSE]
    ELSE IF ~ValidDate(filename.stamp) THEN [entry |-> None, warning |-> TRUE]
    ELSE LET e == ExtractedEntry(content, filename.stamp)
         IN  IF ConversionRaised(e) THEN [entry |-> None, warning |-> TRUE]
             ELSE [entry |-> e, warning |-> FALSE]

\* The order of pathlib paths under performance_results: by directory name,
\* then by file name (digits sort before letters).
NameLess(a, b) ==
    \/ a.kind = "stamp" /\ b.kind = "word"
    \/ a.kind = "stamp" /\ b.kind = "stamp" /\ a.stamp < b.stamp

PathLess(f, g) == f.dir < g.dir \/ (f.dir = g.dir /\ NameLess(f.name, g.name))

\* A mutant of SortedFiles: the files in reverse order.
RECURSIVE SortedFiles_Reversed(_)
SortedFiles_Reversed(S) ==
    IF S = {} THEN <<>>
    ELSE LET m == CHOOSE f \in S : \A g \in S \ {f} : PathLess(g, f)
         IN  <<m>> \o SortedFiles_Reversed(S \ {m})

\* sorted(report_files).
RECURSIVE SortedFiles(_)
SortedFiles(S) ==
    IF S = {} THEN <<>>
    ELSE LET m == CHOOSE f \in S : \A g \in S \ {f} : PathLess(f, g)
         IN  <<m>> \o SortedFiles(S \ {m})

\* "if historical_entry:" - None is false, a dict with keys is true.
Truthy(entry) == entry # None

\* The loop of load_all_historical_results over the sorted files.
RECURSIVE ScanFiles(_)
ScanFiles(files) ==
    IF files = <<>> THEN [data |-> <<>>, loaded |-> <<>>, warned |-> {}]
    ELSE LET before == ScanFiles(SubSeq(files, 1, Len(files) - 1))
             f == files[Len(files)]
             r == extract_metrics_from_markdown(f.content, f.name)
         IN  [ data |-> IF Truthy(r.entry) THEN Append(before.data, r.entry) ELSE before.data,
               loaded |-> IF Truthy(r.entry) THEN Append(before.loaded, f) ELSE before.loaded,
               warned |-> IF r.warning THEN before.warned \cup {f} ELSE before.warned ]

\* load_all_historical_results("."): nothing when performance_results does
\* not exist (it exists once any directory under it does).
load_all_historical_results(tree, directories) ==
    IF directories = {} THEN [data |-> <<>>, loaded |-> <<>>, warned |-> {}]
    ELSE ScanFiles(SortedFiles(tree))

----------------------------------------------------------------------------
(* The trend charts.  Each returns the image it saved (None when it saves  *)
(* none) or the KeyError of a record that lacks a percentile it reads.     *)

Lacks(history, keys) ==
    \E i \in 1..Len(history) : ~(keys \subseteq DOMAIN history[i].latency_percentiles)

\* A mutant of TrendChart: the guard lets a single record through.
TrendChart_GuardOff(history, keys, image) ==
    IF Len(history) < 1 THEN [raised |-> "", image |-> None]
    ELSE IF Lacks(history, keys) THEN [raised |-> "KeyError", image |-> None]
    ELSE [raised |-> "", image |-> [name |-> image]]

TrendChart(history, keys, image) ==
    IF Len(history) < 2 THEN [raised |-> "", image |-> None]
    ELSE IF Lacks(history, keys) THEN [raised |-> "KeyError", image |-> None]
    ELSE [raised |-> "", image |-> [name |-> image]]

create_latency_throughput_correlation(history) ==
    TrendChart(history, {"p50", "p99", "p99_9"}, "latency_throughput_correlation.png")

create_performance_evolution_timeline(history) ==
    TrendChart(history, {"p50", "p99"}, "performance_evolution_timeline.png")

create_multi_percentile_progression(history) ==
    TrendChart(history, {"p50", "p90", "p95", "p99", "p99_9"}, "multi_percentile_progression.png")

----------------------------------------------------------------------------
(* The inputs: results files and trees of earlier reports.                 *)

LatencyKeys == RequiredLatencyKeys \cup OptionalLatencyKeys

\* A request_latency metric with every key (values in thousandths of a ms).
BaseLatency ==
    ("med" :> 2000) @@ ("p(90)" :> 4000) @@ ("p(95)" :> 5000) @@ ("p(99)" :> 8000) @@
    ("p(99.9)" :> 9000) @@ ("p(99.99)" :> 30000) @@ ("p(99.999)" :> 70000) @@
    ("avg" :> 2500) @@ ("min" :> 500) @@ ("max" :> 90000)

\* Latencies on both sides of every threshold of the program.
LatencyValues ==
    {8000, 9990, 10000, 49990, 50000, 99990, 100000, 499990, 500000, 600000}

\* Rates on both sides of every threshold of the program.
RateValues == {100000, 100100, 500000, 500100, 1000000, 1000100}

\* (count, failed fraction) pairs.
CountValues == {<<10000, 1>>, <<1234567, 50>>}

Summary(latency, rate, cv) ==
    [ metrics |->
        [ request_latency |-> latency,
          http_reqs |-> [count |-> cv[1], rate |-> rate],
          http_req_failed |-> [value |-> cv[2]] ] ]

\* request_latency metrics: one percentile moved to a threshold, or up to
\* MaxMissing keys absent.
LatencyInputs ==
    {Override(BaseLatency, k, v) :
        k \in {"med", "p(90)", "p(95)", "p(99)", "p(99.9)", "p(99.99)", "p(99.999)"},
        v \in LatencyValues}
    \cup {Restrict(BaseLatency, LatencyKeys \ miss) :
            miss \in {m \in SUBSET LatencyKeys : Cardinality(m) \in 1..MaxMissing}}

\* Summaries that lack a key outside request_latency.
BaseSummary == Summary(BaseLatency, 500000, <<10000, 1>>)
BrokenSummaries ==
    { [root_group |-> "no metrics key"],
      [metrics |-> Restrict(BaseSummary.metrics, {"http_reqs", "http_req_failed"})],
      [metrics |-> Restrict(BaseSummary.metrics, {"request_latency", "http_req_failed"})],
      [metrics |-> Restrict(BaseSummary.metrics, {"request_latency", "http_reqs"})],
      [metrics |-> Override(BaseSummary.metrics, "http_reqs", [count |-> 10000])] }

Json(value) == [kind |-> "json", value |-> value]
MissingFile == [kind |-> "missing", value |-> None]
MalformedFile == [kind |-> "malformed", value |-> None]

\* The results files of the specification that varies the input.
AllInputs ==
    {MissingFile, MalformedFile}
    \cup {Json(s) : s \in BrokenSummaries}
    \cup {Json(Summary(l, r, cv)) : l \in LatencyInputs, r \in RateValues, cv \in CountValues}

\* The results files of the specification that varies the tree.
FewInputs ==
    { MissingFile,
      MalformedFile,
      Json(BaseSummary),
      Json(Summary(Restrict(BaseLatency, LatencyKeys \ {"p(99)"}), 500000, <<10000, 1>>)) }

Stamps == {1, 2}

\* An earlier run's record and the report text written for it.
EarlierRecord(s) ==
    StatsRecord(Summary(Override(BaseLatency, "p(99)", 10000 * s), 600100 * s, <<1234567, 50>>), s)

\* A text with no row the scanner reads, and a text with a cell that does
\* not convert (int('') raises).
EmptyContent == [Title |-> "Clogs Performance Test Results"]
GarbledContent == Override(RenderReport(EarlierRecord(1)), "TotalRequests", <<",">>)

FileNames == {StampName(s) : s \in Stamps \cup {0}} \cup {WordName}

CandidateFiles ==
    {[dir |-> d, name |-> n, content |-> c] :
        d \in Stamps, n \in FileNames,
        c \in {RenderReport(EarlierRecord(1)), EmptyContent, GarbledContent}}
    \cup {[dir |-> d, name |-> n, content |-> RenderReport(EarlierRecord(2))] :
            d \in {2}, n \in FileNames}

Path(f) == [dir |-> f.dir, name |-> f.name]

\* Trees of at most n files, no two at the same path.
RECURSIVE TreesUpTo(_)
TreesUpTo(n) ==
    IF n = 0 THEN {{}}
    ELSE LET smaller == TreesUpTo(n - 1)
         IN  smaller \cup
             {t \cup {f} : <<t, f>> \in
                 {x \in smaller \X CandidateFiles : \A g \in x[1] : Path(g) # Path(x[2])}}

AllTrees == TreesUpTo(MaxFiles)

\* The trees of the specification that varies the input: none, and the
\* reports of two earlier runs.
FewTrees ==
    { {},
      {[dir |-> s, name |-> StampName(s), content |-> RenderReport(EarlierRecord(s))] : s \in Stamps} }

----------------------------------------------------------------------------
(* The process                                                             *)

\* sys.exit(0 if success else 1), a mutant first: the status ignores success.
ExitStatus_AlwaysZero(success) == 0

ExitStatus(success) == IF success THEN 0 ELSE 1

BaseCharts == <<"latency_distribution.png", "throughput_correlation.png">>

Start(input, tree, clocks) ==
    /\ pc = "start"
    /\ deps \in BOOLEAN
    /\ inputFile = input
    /\ \E c \in clocks : runId = c[1] /\ now = c[2]
    /\ fs = tree
    /\ dirs = {f.dir : f \in tree}
    /\ k6_data = None
    /\ data = None
    /\ historical_data = <<>>
    /\ loaded = <<>>
    /\ warned = {}
    /\ charts = <<>>
    /\ images = {}
    /\ written = {}
    /\ stages = <<>>
    /\ error = ""
    /\ exitCode = -1

\* The run over every tree of earlier reports.
\* (argv[2] names any run, whatever the clock).
Init == \E input \in FewInputs, tree \in AllTrees : Start(input, tree, Stamps \X Stamps)

\* The run over every results file.
\* (no argv[2]: the run is named by the clock).
InitInputs ==
    \E input \in AllInputs, tree \in FewTrees : Start(input, tree, {<<s, s>> : s \in Stamps})

\* main's except branch: return False, and the process exits with status 1.
Fail(e) ==
    /\ pc' = "exit"
    /\ error' = e
    /\ exitCode' = ExitStatus(FALSE)

Advance(stage, next) ==
    /\ pc' = next
    /\ stages' = Append(stages, stage)
    /\ UNCHANGED <<error, exitCode>>

\* The import guard: without the rendering libraries the process exits
\* with status 1 before main runs.
ImportGuard ==
    /\ pc = "start"
    /\ IF deps
       THEN /\ pc' = "load"
            /\ UNCHANGED exitCode
       ELSE /\ pc' = "exit"
            /\ exitCode' = 1
    /\ UNCHANGED <<deps, inputFile, runId, now, fs, dirs, k6_data, data, historical_data,
                   loaded, warned, charts, images, written, stages, error>>

\* A mutant of Load: the output directory is made before the file is read.
Load_MkdirFirst ==
    /\ pc = "load"
    /\ dirs' = dirs \cup {runId}
    /\ IF inputFile.kind = "json"
       THEN /\ k6_data' = inputFile.value
            /\ Advance("load", "convert")
       ELSE /\ Fail(IF inputFile.kind = "missing" THEN "FileNotFoundError" ELSE "JSONDecodeError")
            /\ UNCHANGED <<k6_data, stages>>
    /\ UNCHANGED <<deps, inputFile, runId, now, fs, data, historical_data,
                   loaded, warned, charts, images, written>>

\* open(results_file) and json.load.
Load ==
    /\ pc = "load"
    /\ IF inputFile.kind = "json"
       THEN /\ k6_data' = inputFile.value
            /\ Advance("load", "convert")
       ELSE /\ Fail(IF inputFile.kind = "missing" THEN "FileNotFoundError" ELSE "JSONDecodeError")
            /\ UNCHANGED <<k6_data, stages>>
    /\ UNCHANGED <<deps, inputFile, runId, now, fs, dirs, data, historical_data,
                   loaded, warned, charts, images, written>>

\* data = convert_k6_data(k6_data).
Convert ==
    /\ pc = "convert"
    /\ LET r == convert_k6_data(k6_data, now)
       IN  IF r.raised = ""
           THEN /\ data' = r.value
                /\ Advance("convert", "mkdirs")
           ELSE /\ Fail(r.raised)
                /\ UNCHANGED <<data, stages>>
    /\ UNCHANGED <<deps, inputFile, runId, now, fs, dirs, k6_data, historical_data,
                   loaded, warned, charts, images, written>>

\* output_dir.mkdir(parents=True, exist_ok=True) and images_dir.mkdir.
MakeDirs ==
    /\ pc = "mkdirs"
    /\ dirs' = dirs \cup {runId}
    /\ Advance("mkdirs", "scan")
    /\ UNCHANGED <<deps, inputFile, runId, now, fs, k6_data, data, historical_data,
                   loaded, warned, charts, images, written>>

\* historical_data = load_all_historical_results(".").
Scan ==
    /\ pc = "scan"
    /\ LET r == load_all_historical_results(fs, dirs)
       IN  /\ historical_data' = r.data
           /\ loaded' = r.loaded
           /\ warned' = r.warned
    /\ Advance("scan", "charts")
    /\ UNCHANGED <<deps, inputFile, runId, now, fs, dirs, k6_data, data, charts, images, written>>

\* charts = create_charts(data, images_dir): the two base charts (no
\* historical_data is passed, so its historical section is skipped).
Charts ==
    /\ pc = "charts"
    /\ charts' = BaseCharts
    /\ images' = images \cup {BaseCharts[i] : i \in 1..Len(BaseCharts)}
    /\ Advance("charts", "trend")
    /\ UNCHANGED <<deps, inputFile, runId, now, fs, dirs, k6_data, data, historical_data,
                   loaded, warned, written>>

\* The images the three trend charts save, in call order, up to the first
\* that raises; and what was raised.
TrendCalls(history) ==
    LET c1 == create_latency_throughput_correlation(history)
        c2 == create_performance_evolution_timeline(history)
        c3 == create_multi_percentile_progression(history)
        saved(cs) == {c.image.name : c \in {x \in cs : x.image # None}}
    IN  IF c1.raised # "" THEN [raised |-> c1.raised, images |-> {}]
        ELSE IF c2.raised # "" THEN [raised |-> c2.raised, images |-> saved({c1})]
        ELSE IF c3.raised # "" THEN [raised |-> c3.raised, images |-> saved({c1, c2})]
        ELSE [raised |-> "", images |-> saved({c1, c2, c3})]

\* "if len(historical_data) >= 2:" and the three calls.
Trend ==
    /\ pc = "trend"
    /\ IF Len(historical_data) >= 2
       THEN LET r == TrendCalls(historical_data)
            IN  /\ images' = images \cup r.images
                /\ IF r.raised = ""
                   THEN Advance("trend", "report")
                   ELSE /\ Fail(r.raised)
                        /\ UNCHANGED stages
       ELSE /\ UNCHANGED images
            /\ Advance("trend", "report")
    /\ UNCHANGED <<deps, inputFile, runId, now, fs, dirs, k6_data, data, historical_data,
                   loaded, warned, charts, written>>

\* generate_markdown_report(data, charts, output_dir, timestamp), then
\* main returns True and the process exits with status 0.
Report ==
    /\ pc = "report"
    /\ LET file == [dir |-> runId, name |-> StampName(runId), content |-> RenderReport(data)]
       IN  /\ fs' = {f \in fs : Path(f) # Path(file)} \cup {file}
           /\ written' = {file}
    /\ pc' = "exit"
    /\ stages' = Append(stages, "report")
    /\ exitCode' = ExitStatus(TRUE)
    /\ UNCHANGED <<deps, inputFile, runId, now, dirs, k6_data, data, historical_data,
                   loaded, warned, charts, images, error>>

Next == ImportGuard \/ Load \/ Convert \/ MakeDirs \/ Scan \/ Charts \/ Trend \/ Report

Spec == Init /\ [][Next]_vars

SpecInputs == InitInputs /\ [][Next]_vars

----------------------------------------------------------------------------
(* The claims                                                              *)

Range(seq) == {seq[i] : i \in 1..Len(seq)}
Done(stage) == stage \in Range(stages)
AllStages == <<"load", "convert", "mkdirs", "scan", "charts", "trend", "report">>
TrendImages ==
    {"latency_throughput_correlation.png", "performance_evolution_timeline.png",
     "multi_percentile_progression.png"}

\* The keys convert_k6_data needs outside request_latency are present.
OuterKeysPresent(k6) ==
    /\ "metrics" \in DOMAIN k6
    /\ {"request_latency", "http_reqs", "http_req_failed"} \subseteq DOMAIN k6["metrics"]
    /\ {"count", "rate"} \subseteq DOMAIN k6["metrics"]["http_reqs"]
    /\ "value" \in DOMAIN k6["metrics"]["http_req_failed"]

\* The run converted its input into data.
Converted == data # None

InputP99 == k6_data["metrics"]["request_latency"]["p(99)"]
InputRate == k6_data["metrics"]["http_reqs"]["rate"]

\* The input of C1: count 10000, rate 500, p(99) 8 ms, failed fraction 0.001.
IsC1Input ==
    /\ Converted
    /\ k6_data["metrics"]["http_reqs"]["count"] = 10000
    /\ InputRate = 500000
    /\ InputP99 = 8000
    /\ k6_data["metrics"]["http_req_failed"]["value"] = 1

C1_Shows(f, throughput, overall) ==
    /\ f.content["TotalRequests"] = <<"1", "0", ",", "0", "0", "0">>
    /\ f.content["AverageRPS"] = <<"5", "0", "0", ".", "0">>
    /\ f.content["Latency"] = "A+ (Outstanding)"
    /\ f.content["Throughput"] = throughput
    /\ f.content["Overall"] = overall
    /\ f.content["SuccessRate"] = <<"9", "9", ".", "9", "0", "%">>

\* C1, as stated: for the input with count 10000, rate 500, p(99) 8 and
\* failed fraction 0.001, the report written shows total requests 10,000,
\* average RPS 500.0, latency grade "A+ (Outstanding)", throughput grade
\* "B (Good)", overall grade "A (Excellent)" and success rate 99.90%.
C1_AsStated ==
    IsC1Input => \A f \in written : C1_Shows(f, "B (Good)", "A (Excellent)")

\* C1, amended: for that input the report written shows total requests
\* 10,000, average RPS 500.0, latency grade "A+ (Outstanding)", success rate
\* 99.90%, and, a rate of 500 not being above 500, throughput grade
\* "C (Basic Performance)" and overall grade "B (Good)".
C1_ReportOfExample ==
    IsC1Input => \A f \in written : C1_Shows(f, "C (Basic Performance)", "B (Good)")

C1_Witness == IsC1Input /\ written # {} /\ exitCode = 0

\* C2: the latency grade of the converted record is decided by the first
\* threshold the input's p(99) is strictly below: 10 ms "A+ (Outstanding)",
\* 50 ms "A (Very Good)", 100 ms "B (Good)", 500 ms "C (Acceptable)", and
\* "D (Poor)" from 500 ms on.
C2_LatencyGrade ==
    Converted =>
        LET g == data.performance_analysis.latency_grade
        IN  /\ (InputP99 < 10000) => g = "A+ (Outstanding)"
            /\ (10000 <= InputP99 /\ InputP99 < 50000) => g = "A (Very Good)"
            /\ (50000 <= InputP99 /\ InputP99 < 100000) => g = "B (Good)"
            /\ (100000 <= InputP99 /\ InputP99 < 500000) => g = "C (Acceptable)"
            /\ (500000 <= InputP99) => g = "D (Poor)"

C2_Witness ==
    Converted /\ InputP99 = 10000 /\ data.performance_analysis.latency_grade = "A (Very Good)"

\* C3: the throughput grade of the converted record is decided by the first
\* threshold the input's rate is strictly above: 1000 grade A, 500 grade B,
\* 100 grade C, and grade D up to 100.
C3_ThroughputGrade ==
    Converted =>
        LET g == data.performance_analysis.throughput_grade
        IN  /\ (InputRate > 1000000) => g = "A (Very Good)"
            /\ (InputRate <= 1000000 /\ InputRate > 500000) => g = "B (Good)"
            /\ (InputRate <= 500000 /\ InputRate > 100000) => g = "C (Basic Performance)"
            /\ (InputRate <= 100000) => g = "D (Limited)"

C3_Witness ==
    Converted /\ InputRate = 1000000 /\ data.performance_analysis.throughput_grade = "B (Good)"

\* C4: the overall grade of the converted record is "A (Excellent)" exactly
\* when p(99) is below 10 ms and the rate is above 500, and "B (Good)"
\* otherwise.
C4_OverallGrade ==
    Converted =>
        LET g == data.performance_analysis.overall_grade
        IN  /\ g \in {"A (Excellent)", "B (Good)"}
            /\ g = "A (Excellent)" <=> (InputP99 < 10000 /\ InputRate > 500000)

C4_Witness ==
    Converted /\ InputP99 < 10000 /\ InputRate > 500000
    /\ data.performance_analysis.overall_grade = "A (Excellent)"

\* C5: once convert_k6_data has run on an input whose other keys are
\* present, it has raised KeyError and produced no record if one of med,
\* p(90), p(95), p(99), p(99.9), avg, min, max is absent from
\* request_latency; otherwise it has produced a record, in which p99_99 and
\* p99_999 are 0 when p(99.99) and p(99.999) are absent.
C5_RequiredAndOptionalKeys ==
    (k6_data # None /\ pc # "convert" /\ OuterKeysPresent(k6_data)) =>
        LET present == DOMAIN k6_data["metrics"]["request_latency"]
        IN  IF {"med", "p(90)", "p(95)", "p(99)", "p(99.9)", "avg", "min", "max"} \subseteq present
            THEN /\ Converted
                 /\ error = ""
                 /\ "p(99.99)" \notin present => data.latency_percentiles.p99_99 = 0
                 /\ "p(99.999)" \notin present => data.latency_percentiles.p99_999 = 0
            ELSE /\ ~Converted
                 /\ error = "KeyError"
                 /\ pc = "exit"

C5_Witness ==
    /\ k6_data # None
    /\ OuterKeysPresent(k6_data)
    /\ "p(99.9)" \notin DOMAIN k6_data["metrics"]["request_latency"]
    /\ error = "KeyError"
    /\ ~Converted

\* C6: the process exits with 0 exactly when every stage of the pipeline
\* has completed and with 1 otherwise (a stage raised, or the libraries are
\* missing); with a missing or malformed results file, or one that lacks a
\* required key, it exits with 1 and the run has written no report.
C6_ExitCode ==
    /\ pc # "exit" => exitCode = -1
    /\ pc = "exit" =>
        /\ exitCode \in {0, 1}
        /\ exitCode = 0 <=> stages = AllStages
        /\ (error # "" \/ ~deps) => exitCode = 1
        /\ (deps /\ (inputFile.kind # "json" \/ ~LookupsSucceed(inputFile.value))) =>
              /\ exitCode = 1
              /\ error # ""
              /\ written = {}

C6_Witness ==
    pc = "exit" /\ inputFile.kind = "malformed" /\ deps /\ exitCode = 1 /\ written = {}

\* The text has none of the rows the scanner reads.
YieldsNoMetrics(content) ==
    LET e == ExtractedEntry(content, 1)
    IN  /\ Group(content, "TotalRequests", DigitSet \cup {","}, <<>>) = <<>>
        /\ Group(content, "AverageRPS", GroupedChars, <<>>) = <<>>
        /\ DurationGroup(content) = <<>>
        /\ DOMAIN e.latency_percentiles = {}
        /\ DOMAIN e.throughput_analysis = {}
        /\ DOMAIN e.performance_analysis = {}

\* C7, as stated: after the scan, a file named performance_report_<8
\* digits>_<6 digits>.md whose text yields no metrics has contributed no
\* record and was skipped with a warning.
C7_NoMetricsSkipped ==
    pc = "charts" =>
        \A f \in fs :
            (timestamp_match(f.name) /\ YieldsNoMetrics(f.content)) =>
                (f \notin Range(loaded) /\ f \in warned)

TrendKeys == {"p50", "p90", "p95", "p99", "p99_9"}

\* C8, as stated: the record built by convert_k6_data and every record of
\* the series handed to the trend charts hold each of p50, p90, p95, p99
\* and p99_9, and no trend chart raises on a missing one.
C8_FullyPopulated ==
    /\ Converted => TrendKeys \subseteq DOMAIN data.latency_percentiles
    /\ (pc = "trend" /\ Len(historical_data) >= 2) =>
          /\ \A i \in 1..Len(historical_data) :
                TrendKeys \subseteq DOMAIN historical_data[i].latency_percentiles
          /\ TrendCalls(historical_data).raised = ""

TimestampsAscend ==
    \A i, j \in 1..Len(historical_data) :
        i < j => historical_data[i].timestamp <= historical_data[j].timestamp

\* The text is a report as generate_markdown_report writes it.
WellFormed(content) == \E s \in Stamps : content = RenderReport(EarlierRecord(s))

\* C9, as stated: for any set of report files the records of the series are
\* in non-decreasing order of the timestamps of their file names (checked
\* here on trees whose files read are all well-formed reports).
C9_TimestampOrder ==
    (pc = "charts" /\ \A f \in Range(loaded) : WellFormed(f.content)) => TimestampsAscend

\* C9, amended: the records of the series are in the order of their files'
\* paths (directory name first, then file name), each with the timestamp of
\* its file name; that is non-decreasing timestamp order when every report
\* read lies in the directory named by its own timestamp, as main writes it.
C9_PathOrder ==
    pc = "charts" =>
        /\ Len(loaded) = Len(historical_data)
        /\ \A i \in 1..Len(loaded) : historical_data[i].timestamp = loaded[i].name.stamp
        /\ \A i, j \in 1..Len(loaded) : i < j => PathLess(loaded[i], loaded[j])
        /\ (\A f \in Range(loaded) : f.dir = f.name.stamp) => TimestampsAscend

C9_Witness ==
    /\ pc = "charts"
    /\ Len(historical_data) = 2
    /\ \A f \in Range(loaded) : f.dir = f.name.stamp
    /\ historical_data[1].timestamp < historical_data[2].timestamp

NoChart == [raised |-> "", image |-> None]

\* C10: given fewer than 2 records each trend-chart function returns
\* nothing, saves no image and does not raise; and a run whose scan yields
\* fewer than 2 records saves no trend chart and exits with 0, its report
\* written.
C10_FewRecords ==
    Len(historical_data) < 2 =>
        /\ create_latency_throughput_correlation(historical_data) = NoChart
        /\ create_performance_evolution_timeline(historical_data) = NoChart
        /\ create_multi_percentile_progression(historical_data) = NoChart
        /\ images \cap TrendImages = {}
        /\ (pc = "exit" /\ Done("scan")) =>
              (exitCode = 0 /\ error = "" /\ written # {} /\ stages = AllStages)

C10_Witness ==
    /\ pc = "exit"
    /\ Len(historical_data) = 1
    /\ ~(TrendKeys \subseteq DOMAIN historical_data[1].latency_percentiles)
    /\ exitCode = 0
    /\ written # {}

\* The percentile rows of the report: the status row, the field of the
\* record the row shows, and the threshold of its badge in thousandths of ms.
PercentileRows ==
    { <<"P50Status", "p50", 10000>>, <<"P90Status", "p90", 10000>>,
      <<"P95Status", "p95", 10000>>, <<"P99Status", "p99", 10000>>,
      <<"P99_9Status", "p99_9", 10000>>, <<"P99_99Status", "p99_99", 50000>>,
      <<"P99_999Status", "p99_999", 100000>> }

\* Each percentile row of the report `f` of the record `d` carries
\* "Outstanding" exactly below the threshold given by `limit`, else "Good".
BadgesFollow(f, d, limit(_)) ==
    \A r \in PercentileRows :
        /\ f.content[r[1]] \in {"Outstanding", "Good"}
        /\ f.content[r[1]] = "Outstanding" <=> d.latency_percentiles[r[2]] < limit(r)

\* C11, as stated: in the report written, every percentile row (P50, P90,
\* P95, P99, P99.9, P99.99, P99.999) carries "Outstanding" exactly when the
\* row's latency is below 10 ms, and "Good" otherwise.
C11_AsStated ==
    \A f \in written : LET ten(r) == 10000 IN BadgesFollow(f, data, ten)

\* C11, amended: the rows P50, P90, P95, P99 and P99.9 carry "Outstanding"
\* exactly when the row's latency is below 10 ms, the row P99.99 exactly when
\* it is below 50 ms and the row P99.999 exactly when it is below 100 ms;
\* each row carries "Good" otherwise.
C11_BadgePerRow ==
    \A f \in written : LET own(r) == r[3] IN BadgesFollow(f, data, own)

C11_Witness ==
    /\ written # {}
    /\ data.latency_percentiles.p99_99 = 10000
    /\ \A f \in written : f.content["P99_99Status"] = "Outstanding"

\* The fields of a record other than its timestamp.
WithoutTimestamp(d) == [field \in DOMAIN d \ {"timestamp"} |-> d[field]]

\* C12, as stated: two calls of convert_k6_data with the same RawSummary,
\* whenever they are made, return records equal in every field.
C12_AsStated ==
    k6_data # None =>
        \A c1, c2 \in Stamps : convert_k6_data(k6_data, c1) = convert_k6_data(k6_data, c2)

\* Two calls with the same RawSummary at the clock readings c1 and c2 raise
\* alike or return records that agree outside the timestamp, each with the
\* timestamp of its own call; and the run's record is the one of its clock.
C12_EqualButTimestamp ==
    k6_data # None =>
        /\ \A c1, c2 \in Stamps :
              LET r1 == convert_k6_data(k6_data, c1)
                  r2 == convert_k6_data(k6_data, c2)
              IN  /\ r1.raised = r2.raised
                  /\ r1.raised = "" =>
                        /\ WithoutTimestamp(r1.value) = WithoutTimestamp(r2.value)
                        /\ r1.value.timestamp = c1
                        /\ r2.value.timestamp = c2
        /\ Converted => data = convert_k6_data(k6_data, now).value

\* The step that calls convert_k6_data changes neither its argument nor the
\* clock, the run identifier, the files, the directories or the images.
C12_NoSideEffect ==
    pc = "convert" =>
        UNCHANGED <<deps, inputFile, runId, now, fs, dirs, k6_data, historical_data,
                    loaded, warned, charts, images, written>>

\* C12, amended: two calls of convert_k6_data with the same RawSummary return
\* records equal in every field but the timestamp, which is the clock reading
\* of each call (or both raise KeyError); and the call changes no state
\* outside its return value.
C12_DeterministicButClock == [](C12_EqualButTimestamp) /\ [][C12_NoSideEffect]_vars

C12_Witness ==
    /\ Converted
    /\ pc = "mkdirs"
    /\ data.timestamp = now
    /\ \E c \in Stamps : /\ convert_k6_data(k6_data, c).value # data
                         /\ WithoutTimestamp(convert_k6_data(k6_data, c).value)
                                = WithoutTimestamp(data)

\* The file is a report as a run of main writes it: in the directory of its
\* run identifier, named after it, with the text of a record.
WrittenByTool(f) ==
    /\ timestamp_match(f.name)
    /\ ValidDate(f.name.stamp)
    /\ f.dir = f.name.stamp
    /\ WellFormed(f.content)

\* The series returned by a scan of the tree that holds the file f alone.
SingleReportScan(f) == load_all_historical_results({f}, {f.dir}).data

\* The record e holds every field the scanner reads, each but the timestamp
\* equal to what the cell of the report text shows.
ShowsMetrics(e, content) ==
    /\ FormatGrouped(e.total_requests) = content["TotalRequests"]
    /\ FormatFixed(e.average_throughput_rps, 1) = content["AverageRPS"]
    /\ DOMAIN e.latency_percentiles = DOMAIN PercentileRow
    /\ \A k \in DOMAIN PercentileRow :
          FormatFixed(e.latency_percentiles[k], 2) \o Ms = content[PercentileRow[k]]
    /\ DOMAIN e.throughput_analysis = DOMAIN RateRow \cup DOMAIN RpsRow
    /\ \A k \in DOMAIN RateRow :
          FormatFixed(e.throughput_analysis[k], 2) \o Percent = content[RateRow[k]]
    /\ \A k \in DOMAIN RpsRow :
          FormatFixed(e.throughput_analysis[k], 1) \o Rps = content[RpsRow[k]]
    /\ DOMAIN e.performance_analysis = DOMAIN GradeRow
    /\ \A k \in DOMAIN GradeRow : e.performance_analysis[k] = content[GradeRow[k]]

\* The tree scanned by the run held one report, written by the tool.
OneReportScanned ==
    pc = "charts" /\ Cardinality(fs) = 1 /\ \A f \in fs : WrittenByTool(f)

\* C13, as stated: the scan of a tree that holds exactly one report written
\* by the tool returns one record, which holds timestamp, total requests,
\* average RPS, p50, p90, p95, p99, p99_9, error and success rate, peak and
\* sustained RPS and the three grades, each equal to what the report shows
\* (the timestamp to its Test Date).  Checked on the tree the run scanned
\* and on the tree that holds the report the run has written.
C13_AsStated ==
    /\ OneReportScanned =>
          /\ Len(historical_data) = 1
          /\ \A f \in fs : /\ ShowsMetrics(historical_data[1], f.content)
                           /\ historical_data[1].timestamp = f.content["TestDate"]
    /\ \A f \in written :
          LET h == SingleReportScan(f)
          IN  /\ Len(h) = 1
              /\ ShowsMetrics(h[1], f.content)
              /\ h[1].timestamp = f.content["TestDate"]

\* C13, amended: that scan returns one record, which holds each of those
\* fields; every field but the timestamp equals what the report shows, and
\* the timestamp is the one of the file name (the run identifier), whatever
\* Test Date the report shows.
C13_SingleReport ==
    /\ OneReportScanned =>
          /\ Len(historical_data) = 1
          /\ \A f \in fs : /\ ShowsMetrics(historical_data[1], f.content)
                           /\ historical_data[1].timestamp = f.name.stamp
    /\ \A f \in written :
          LET h == SingleReportScan(f)
          IN  /\ Len(h) = 1
              /\ ShowsMetrics(h[1], f.content)
              /\ h[1].timestamp = f.name.stamp

C13_Witness ==
    /\ OneReportScanned
    /\ Len(historical_data) = 1
    /\ historical_data[1].total_requests = 1234567
    /\ \A f \in fs : f.content["TestDate"] # f.name.stamp

\* C14: in the record produced by convert_k6_data the average RPS is the
\* rate of the http_reqs metric, the peak RPS is 1.2 times it and the
\* sustained RPS is 0.9 times it (in thousandths: 10 * peak = 12 * rate and
\* 10 * sustained = 9 * rate).
C14_PeakAndSustained ==
    Converted =>
        /\ data.average_throughput_rps = InputRate
        /\ data.throughput_analysis.average_throughput_rps = InputRate
        /\ 10 * data.throughput_analysis.peak_rps = 12 * InputRate
        /\ 10 * data.throughput_analysis.sustained_rps = 9 * InputRate

C14_Witness ==
    /\ Converted
    /\ InputRate = 100100
    /\ data.throughput_analysis.peak_rps = 120120
    /\ data.throughput_analysis.sustained_rps = 90090

\* The stages completed so far are the first ones of the pipeline, in its
\* order, and the run stands at the stage that follows them (or has exited);
\* a run that has exited without completing the conversion has made no
\* directory and written no chart and no report.
C15_InOrder ==
    /\ Len(stages) <= Len(AllStages)
    /\ stages = SubSeq(AllStages, 1, Len(stages))
    /\ pc \notin {"start", "exit"} => (Len(stages) < Len(AllStages) /\ pc = AllStages[Len(stages) + 1])
    /\ (pc = "exit" /\ ~Done("convert")) =>
          /\ dirs = {f.dir : f \in fs}
          /\ charts = <<>>
          /\ images = {}
          /\ written = {}

\* A step taken before the conversion has completed leaves the files, the
\* directories and the images alone; a step completes at most the one stage
\* the run stands at; and the report a run writes at a path no earlier file
\* has is not among the files its scan has read, nor is its scan changed.
C15_Steps ==
    /\ ~Done("convert") => UNCHANGED <<fs, dirs, charts, images, written>>
    /\ stages' # stages => (pc \in Range(AllStages) /\ stages' = Append(stages, pc))
    /\ (pc = "report" /\ \A g \in fs : Path(g) # [dir |-> runId, name |-> StampName(runId)]) =>
          /\ written' # {}
          /\ \A f \in written' : /\ f \notin Range(loaded')
                                 /\ \A g \in Range(loaded') : Path(g) # Path(f)
          /\ UNCHANGED <<historical_data, loaded>>

\* C15: the stages of main run strictly in the order load, convert, create
\* output directories, historical scan, base charts, trend charts, report;
\* a run that fails while loading or converting creates no output directory
\* and writes no chart or report; and the scan of a run never includes the
\* report the same run writes afterwards, for a run identifier no earlier
\* run has used.
C15_StagesInOrder == [](C15_InOrder) /\ [][C15_Steps]_vars

C15_Witness ==
    /\ pc = "exit"
    /\ error = "KeyError"
    /\ stages = <<"load">>
    /\ runId \notin dirs
    /\ fs # {}
    /\ written = {}

====
